---- MODULE Spec2Model ----
(***************************************************************************)
(* State-machine model of b2/account_info/sqlite_account_info.py           *)
(* (class SqliteAccountInfo).                                              *)
(*                                                                         *)
(* The store is one file at self.filename.  The file is absent, holds an   *)
(* sqlite database, or holds other bytes (a legacy JSON document or        *)
(* garbage).  Threads of one process use one SqliteAccountInfo instance;   *)
(* every thread talks to the file through its own connections, opened with *)
(* isolation_level='EXCLUSIVE'.  The process may die at any step (Crash)   *)
(* and be started again on the same file.                                  *)
(*                                                                         *)
(* Spec is the store with its write operations, the credential getters and *)
(* the lookup by name; RestrictSpec is the same store read through the     *)
(* derived accessors, the lookup by allowed id and the restriction checks; *)
(* StartupSpec has every thread (or process) run the constructor on one    *)
(* path at the same time.                                                  *)
(*                                                                         *)
(* sqlite3 module semantics assumed (CPython 3.6 and later, legacy         *)
(* transaction control):                                                   *)
(*   - before INSERT/DELETE outside a transaction the module issues        *)
(*     BEGIN EXCLUSIVE; SELECT and DDL never open a transaction;           *)
(*   - DDL inside an open transaction is part of that transaction;         *)
(*   - `with conn:` commits on normal exit and rolls back on an exception; *)
(*   - sqlite locks: SHARED to read, RESERVED to write inside a deferred   *)
(*     transaction, EXCLUSIVE to commit or for BEGIN EXCLUSIVE.            *)
(***************************************************************************)
EXTENDS Integers, Sequences, FiniteSets, TLC

\* ------------------------------------------------------------------------
\* Bounds
\* ------------------------------------------------------------------------
\* longest name_id_iterable handed to refresh_entire_bucket_name_cache
MaxEntries == 2

Threads == {1, 2}
\* the thread that runs __init__
MainThread == 1

BucketNames == {"photos", "videos"}
BucketIds == {"B1", "B2"}

\* ------------------------------------------------------------------------
\* SQL values and column affinity (CREATE TABLE account, bucket)
\* ------------------------------------------------------------------------
SqlNull == [type |-> "NULL", val |-> ""]
SqlText(s) == [type |-> "TEXT", val |-> s]
\* an integer, written by its decimal digits
SqlInteger(s) == [type |-> "INTEGER", val |-> s]
\* a Python list or dict: no sqlite adapter exists for it
Unbindable == [type |-> "UNSUPPORTED", val |-> ""]

\* texts that are well-formed integer literals
NumericTexts == {"100", "200", "7"}

\* the seven NOT NULL columns of table account, in the order of the INSERTs
keys ==
    << "account_id", "application_key", "account_auth_token", "api_url",
       "download_url", "minimum_part_size", "realm" >>

KeySet == {keys[i] : i \in 1..Len(keys)}

\* declared type of a column of table account
ColumnAffinity(column_name) ==
    IF column_name = "minimum_part_size" THEN "INTEGER" ELSE "TEXT"

\* sqlite converts a value to the affinity of the column it is stored in
ApplyAffinity(affinity, v) ==
    IF affinity = "TEXT" /\ v.type = "INTEGER" THEN SqlText(v.val)
    ELSE IF affinity = "INTEGER" /\ v.type = "TEXT" /\ v.val \in NumericTexts
         THEN SqlInteger(v.val)
    ELSE v

\* ------------------------------------------------------------------------
\* json.dumps / json.loads on an `allowed` descriptor
\* ------------------------------------------------------------------------
\* Python values that occur in a descriptor
PyNone == [py |-> "None", s |-> "", items |-> <<>>]
PyStr(x) == [py |-> "str", s |-> x, items |-> <<>>]
PyList(xs) == [py |-> "list", s |-> "", items |-> xs]

\* JSON text is a sequence of tokens
Tok(t) == [t |-> t, s |-> ""]
StrTok(x) == [t |-> "string", s |-> x]

\* serialisation order of the keys of a dict
DictKeyOrder == << "bucketId", "capabilities", "namePrefix" >>

RECURSIVE DumpItems(_)
DumpItems(xs) ==
    IF xs = <<>> THEN <<>>
    ELSE IF Len(xs) = 1 THEN << StrTok(xs[1]) >>
    ELSE << StrTok(xs[1]), Tok(",") >> \o DumpItems(Tail(xs))

DumpValue(v) ==
    CASE v.py = "None" -> << Tok("null") >>
      [] v.py = "str" -> << StrTok(v.s) >>
      [] v.py = "list" -> << Tok("[") >> \o DumpItems(v.items) \o << Tok("]") >>

RECURSIVE DumpMembers(_, _)
DumpMembers(d, ks) ==
    IF ks = <<>> THEN <<>>
    ELSE LET member == << StrTok(ks[1]), Tok(":") >> \o DumpValue(d[ks[1]])
         IN IF Len(ks) = 1 THEN member
            ELSE member \o << Tok(",") >> \o DumpMembers(d, Tail(ks))

\* json.dumps(allowed) for a dict
json_dumps(d) ==
    << Tok("{") >>
    \o DumpMembers(d, SelectSeq(DictKeyOrder, LAMBDA k : k \in DOMAIN d))
    \o << Tok("}") >>

RECURSIVE LoadItems(_, _, _)
\* the elements of an array, from token i on, up to the closing bracket
LoadItems(toks, i, acc) ==
    IF toks[i].t = "]" THEN [v |-> PyList(acc), next |-> i + 1]
    ELSE IF toks[i].t = "," THEN LoadItems(toks, i + 1, acc)
    ELSE LoadItems(toks, i + 1, Append(acc, toks[i].s))

LoadValue(toks, i) ==
    CASE toks[i].t = "null" -> [v |-> PyNone, next |-> i + 1]
      [] toks[i].t = "string" -> [v |-> PyStr(toks[i].s), next |-> i + 1]
      [] toks[i].t = "[" -> LoadItems(toks, i + 1, <<>>)

RECURSIVE LoadMembers(_, _, _)
\* the members of an object, from token i on, up to the closing brace
LoadMembers(toks, i, acc) ==
    IF toks[i].t = "}" THEN acc
    ELSE IF toks[i].t = "," THEN LoadMembers(toks, i + 1, acc)
    ELSE LET pv == LoadValue(toks, i + 2)
         IN LoadMembers(toks, pv.next, acc @@ (toks[i].s :> pv.v))

\* json.loads(allowed_json) of the text of a dict
json_loads(toks) == LoadMembers(toks, 2, <<>>)

\* ------------------------------------------------------------------------
\* Arguments the callers pass
\* ------------------------------------------------------------------------
Allowed1 ==
    [bucketId |-> PyNone, capabilities |-> PyList(<< "listBuckets", "listFiles" >>),
     namePrefix |-> PyNone]
Allowed2 ==
    [bucketId |-> PyStr("B1"), capabilities |-> PyList(<< "listFiles" >>),
     namePrefix |-> PyStr("2024/")]
Allowed3 ==
    [bucketId |-> PyStr("B2"), capabilities |-> PyList(<<>>), namePrefix |-> PyNone]
\* a descriptor without the keys allowed_is_valid asks for
AllowedInvalid == [bucketId |-> PyNone]

Alloweds == {Allowed1, Allowed2, Allowed3}

Credentials1 ==
    [account_id |-> SqlText("a1"), application_key |-> SqlText("k1"),
     account_auth_token |-> SqlText("t1"), api_url |-> SqlText("https://api"),
     download_url |-> SqlText("https://dl"), minimum_part_size |-> SqlInteger("100"),
     realm |-> SqlText("prod")]
Credentials2 ==
    [account_id |-> SqlText("a2"), application_key |-> SqlText("k2"),
     account_auth_token |-> SqlText("t2"), api_url |-> SqlText("https://api2"),
     download_url |-> SqlText("https://dl2"), minimum_part_size |-> SqlInteger("200"),
     realm |-> SqlText("dev")]

\* the arguments of set_auth_data: seven credential fields and `allowed`
AuthData ==
    { [cred |-> Credentials1, allowed |-> Allowed1],
      [cred |-> Credentials2, allowed |-> Allowed2],
      [cred |-> Credentials1, allowed |-> Allowed3],
      [cred |-> Credentials2, allowed |-> AllowedInvalid] }

\* AbstractAccountInfo.allowed_is_valid: the descriptor has its three keys
allowed_is_valid(allowed) ==
    /\ "bucketId" \in DOMAIN allowed
    /\ "capabilities" \in DOMAIN allowed
    /\ "namePrefix" \in DOMAIN allowed

NameIdPairs == BucketNames \X BucketIds

\* name_id_iterable: finite sequences of (bucket_name, bucket_id) pairs
NameIdIterables ==
    UNION { [1..n -> NameIdPairs] : n \in 0..MaxEntries }

\* ------------------------------------------------------------------------
\* The database: schema and rows
\* ------------------------------------------------------------------------
TableNames == << "update_done", "account", "bucket", "bucket_upload_url" >>

\* a database file of zero bytes
EmptyDb ==
    [tables |-> {}, allowed_col |-> FALSE, update_done |-> <<>>,
     account |-> <<>>, bucket |-> <<>>]

\* the NULL of column `allowed`, whose text is a token sequence
NullAllowed == [type |-> "NULL", val |-> <<>>]

\* CREATE TABLE IF NOT EXISTS <name>
CreateTableIfNotExists(db, name) == [db EXCEPT !.tables = @ \cup {name}]

\* SELECT COUNT(*) FROM update_done WHERE update_number = ?
CountUpdateDone(db, update_number) ==
    Len(SelectSeq(db.update_done, LAMBDA n : n = update_number))

\* position of a column in the column list of an INSERT
IndexOf(cols, k) == CHOOSE i \in 1..Len(cols) : cols[i] = k

\* INSERT INTO account (cols) values (values): parameters bind by position;
\* a column that is not listed stays NULL
InsertAccount(db, cols, values) ==
    LET listed(k) == \E i \in 1..Len(cols) : cols[i] = k
        val(k) == values[IndexOf(cols, k)]
    IN IF listed("allowed") /\ ~db.allowed_col
       THEN [err |-> "OperationalError", db |-> db]
       ELSE IF \E k \in KeySet : val(k).type = "UNSUPPORTED"
       THEN [err |-> "InterfaceError", db |-> db]
       ELSE IF \E k \in KeySet : val(k).type = "NULL"
       THEN [err |-> "IntegrityError", db |-> db]
       ELSE [err |-> "",
             db |-> [db EXCEPT !.account =
                       Append(@, [k \in KeySet |-> ApplyAffinity(ColumnAffinity(k), val(k))]
                                 @@ [allowed |-> IF listed("allowed") THEN val("allowed")
                                                 ELSE NullAllowed])]]

\* a DELETE FROM account that removes nothing
DeleteAccount_kept(db) == db

\* DELETE FROM account;
DeleteAccount(db) == [db EXCEPT !.account = <<>>]

\* DELETE FROM bucket;
DeleteBucket(db) == [db EXCEPT !.bucket = <<>>]

\* a DELETE ... WHERE bucket_id = ? that removes nothing
DeleteBucketById_kept(db, id) == db

\* DELETE FROM bucket WHERE bucket_id = ?
DeleteBucketById(db, id) ==
    [db EXCEPT !.bucket = SelectSeq(@, LAMBDA row : row[2] # id)]

\* DELETE FROM bucket WHERE bucket_name = ?
DeleteBucketByName(db, name) ==
    [db EXCEPT !.bucket = SelectSeq(@, LAMBDA row : row[1] # name)]

\* ------------------------------------------------------------------------
\* Content of a file that is not a database
\* ------------------------------------------------------------------------
LegacyExample ==
    [account_id |-> SqlText("a1"), application_key |-> SqlText("k1"),
     account_auth_token |-> SqlText("t1"), api_url |-> SqlText("https://api"),
     download_url |-> SqlText("https://dl"), minimum_part_size |-> SqlInteger("100"),
     realm |-> SqlText("prod")]

Without(m, k) == [x \in (DOMAIN m) \ {k} |-> m[x]]

\* JSON objects: members maps each key to its value as json.loads returns it
\* (str, int, None, or a nested list/dict)
JsonObjects ==
    {LegacyExample}
    \cup { [LegacyExample EXCEPT !.account_id = v] :
             v \in {SqlNull, Unbindable, SqlInteger("7")} }
    \cup { [LegacyExample EXCEPT !.minimum_part_size = v] :
             v \in {SqlNull, SqlText("100"), SqlText("lots")} }
    \cup { Without(LegacyExample, "realm"), [account_id |-> SqlText("a1")] }

FileObject(m) == [utf8 |-> TRUE, json |-> TRUE, shape |-> "object", members |-> m, has |-> {}]
\* an array or a string; has = the key names it has as elements / substrings
FileSeq(shape, has) ==
    [utf8 |-> TRUE, json |-> TRUE, shape |-> shape, members |-> <<>>, has |-> has]
FileScalar(shape) ==
    [utf8 |-> TRUE, json |-> TRUE, shape |-> shape, members |-> <<>>, has |-> {}]
FileNotJson == [utf8 |-> TRUE, json |-> FALSE, shape |-> "", members |-> <<>>, has |-> {}]
FileNotUtf8 == [utf8 |-> FALSE, json |-> FALSE, shape |-> "", members |-> <<>>, has |-> {}]
NoData == [utf8 |-> FALSE, json |-> FALSE, shape |-> "none", members |-> <<>>, has |-> {}]

LegacyFiles ==
    { FileObject(m) : m \in JsonObjects }
    \cup { FileSeq(s, h) : s \in {"array", "string"}, h \in {{}, KeySet} }
    \cup { FileScalar(s) : s \in {"number", "boolean", "null"} }
    \cup { FileNotJson, FileNotUtf8 }

\* `k in data` of Python: "True", "False" or "TypeError"
PyIn(k, data) ==
    CASE data.shape = "object" -> IF k \in DOMAIN data.members THEN "True" ELSE "False"
      [] data.shape \in {"array", "string"} -> IF k \in data.has THEN "True" ELSE "False"
      [] OTHER -> "TypeError"

\* all(k in data for k in keys)
AllKeysIn(data) ==
    IF \E i \in 1..Len(keys) :
          /\ PyIn(keys[i], data) = "TypeError"
          /\ \A j \in 1..(i - 1) : PyIn(keys[j], data) = "True"
    THEN "TypeError"
    ELSE IF \A i \in 1..Len(keys) : PyIn(keys[i], data) = "True" THEN "True"
    ELSE "False"

\* a database written by a release that had no `allowed` column
OldRow == [k \in KeySet |-> Credentials1[k]] @@ [allowed |-> NullAllowed]
OldDbs ==
    { [tables |-> {TableNames[i] : i \in 1..Len(TableNames)}, allowed_col |-> FALSE,
       update_done |-> <<>>, account |-> a, bucket |-> b] :
        a \in {<<>>, << OldRow >>}, b \in {<<>>, << <<"photos", "B1">> >>} }

\* ------------------------------------------------------------------------
\* State
\* ------------------------------------------------------------------------
VARIABLES
    fkind,          \* what is at self.filename: "absent", "db" or "legacy"
    fdata,          \* the bytes of a file that is not a database
    fmode,          \* permissions of the file: "umask" (as created) or "0600"
    fcreated,       \* the file was created by sqlite3.connect of this class
    disk,           \* committed content of the database file
    pc,             \* per thread: the statement it is at
    ctx,            \* per thread: the caller of _create_tables / _create_database
    arg,            \* per thread: arguments of the operation in progress
    pre,            \* per thread: committed content when its operation began
    in_transaction, \* per thread: Connection.in_transaction of the connection in use
    lock,           \* per thread: sqlite lock its connections hold on the file
    work,           \* per thread: uncommitted content of its open write transaction
    thread_local,   \* per thread: self.thread_local.connection (0 = attribute not set)
    connects,       \* per thread: connections _get_connection has created for it
    update_count,   \* per thread: update_count read by _ensure_update
    data,           \* the parsed legacy document held by _validate_database
    ready,          \* __init__ has returned
    failure,        \* exception that left __init__, "" if none
    ret,            \* outcome of a call, until its caller has taken it
    last_write      \* the last committed change of account or bucket rows

fileVars == << fkind, fdata, fmode, fcreated >>
txVars == << disk, work, lock, in_transaction >>
vars ==
    << fkind, fdata, fmode, fcreated, disk, pc, ctx, arg, pre, in_transaction, lock,
       work, thread_local, connects, update_count, data, ready, failure, ret, last_write >>

NoArg == [op |-> ""]
NoRet == [thread |-> 0, op |-> "", key |-> "", raised |-> "", value |-> PyNone]
NoWrite == [op |-> "", arg |-> NoArg, cached |-> {}]

Init ==
    /\ \/ fkind = "absent" /\ fdata = NoData /\ disk = EmptyDb
       \/ fkind = "db" /\ fdata = NoData /\ disk \in OldDbs
       \/ fkind = "legacy" /\ fdata \in LegacyFiles /\ disk = EmptyDb
    /\ fmode = "umask"
    /\ fcreated = FALSE
    /\ pc = [t \in Threads |-> IF t = MainThread THEN "start" ELSE "idle"]
    /\ ctx = [t \in Threads |-> ""]
    /\ arg = [t \in Threads |-> NoArg]
    /\ pre = [t \in Threads |-> EmptyDb]
    /\ in_transaction = [t \in Threads |-> FALSE]
    /\ lock = [t \in Threads |-> "NONE"]
    /\ work = [t \in Threads |-> EmptyDb]
    /\ thread_local = [t \in Threads |-> 0]
    /\ connects = [t \in Threads |-> 0]
    /\ update_count = [t \in Threads |-> 0]
    /\ data = NoData
    /\ ready = FALSE
    /\ failure = ""
    /\ ret = NoRet
    /\ last_write = NoWrite

\* ------------------------------------------------------------------------
\* Connections, locks and transactions
\* ------------------------------------------------------------------------
\* sqlite3.connect(self.filename, isolation_level=None): autocommit mode
_connect_autocommit == [isolation_level |-> "NONE"]

\* sqlite3.connect(self.filename, isolation_level='EXCLUSIVE')
_connect == [isolation_level |-> "EXCLUSIVE"]

CanShared(t) == \A u \in Threads \ {t} : lock[u] # "EXCLUSIVE"
CanReserved(t) == \A u \in Threads \ {t} : lock[u] \notin {"RESERVED", "EXCLUSIVE"}
CanExclusive(t) == \A u \in Threads \ {t} : lock[u] = "NONE"

Writing(t) == lock[t] \in {"RESERVED", "EXCLUSIVE"}

\* the content thread t's statements see
View(t) == IF Writing(t) THEN work[t] ELSE disk

\* a write inside the open transaction of t: takes RESERVED on the first write
WriteInTransaction(t, d) ==
    /\ Writing(t) \/ CanReserved(t)
    /\ work' = [work EXCEPT ![t] = d]
    /\ lock' = [lock EXCEPT ![t] = IF @ = "EXCLUSIVE" THEN @ ELSE "RESERVED"]
    /\ UNCHANGED << disk, in_transaction >>

\* a statement that runs in autocommit mode
WriteAutocommit(t, d) ==
    /\ CanExclusive(t)
    /\ disk' = d
    /\ UNCHANGED << work, lock, in_transaction >>

\* conn.execute of INSERT or DELETE leaving content d: outside a transaction
\* the module first issues BEGIN <isolation_level>
ExecuteDml(t, d) ==
    IF in_transaction[t] THEN WriteInTransaction(t, d)
    ELSE IF _connect.isolation_level = "EXCLUSIVE"
    THEN /\ CanExclusive(t)
         /\ work' = [work EXCEPT ![t] = d]
         /\ lock' = [lock EXCEPT ![t] = "EXCLUSIVE"]
         /\ in_transaction' = [in_transaction EXCEPT ![t] = TRUE]
         /\ UNCHANGED disk
    ELSE WriteAutocommit(t, d)

\* DDL that does not join the open transaction
ExecuteDdl_autocommit(t, d) == WriteAutocommit(t, d)

\* conn.execute of CREATE TABLE or ALTER TABLE leaving content d: the module
\* opens no transaction for it
ExecuteDdl(t, d) ==
    IF in_transaction[t] THEN WriteInTransaction(t, d) ELSE WriteAutocommit(t, d)

\* Connection.__exit__ without exception: commit
Commit(t) ==
    /\ Writing(t) => CanExclusive(t)
    /\ disk' = IF Writing(t) THEN work[t] ELSE disk
    /\ work' = [work EXCEPT ![t] = EmptyDb]
    /\ lock' = [lock EXCEPT ![t] = "NONE"]
    /\ in_transaction' = [in_transaction EXCEPT ![t] = FALSE]

\* Connection.__exit__ with an exception: rollback
Rollback(t) ==
    /\ work' = [work EXCEPT ![t] = EmptyDb]
    /\ lock' = [lock EXCEPT ![t] = "NONE"]
    /\ in_transaction' = [in_transaction EXCEPT ![t] = FALSE]
    /\ UNCHANGED disk

Goto(t, label) == pc' = [pc EXCEPT ![t] = label]

\* an exception leaves __init__
Raise(t, exception) ==
    /\ Goto(t, "failed")
    /\ failure' = exception

\* ------------------------------------------------------------------------
\* __init__ : _validate_database, _create_database, _create_tables,
\* _ensure_update
\* ------------------------------------------------------------------------
ctlFrame == << arg, pre, thread_local, connects, update_count, ready, ret >>

\* _validate_database: os.path.exists(self.filename)
_validate_database(t) ==
    /\ pc[t] = "start"
    /\ IF fkind = "absent"
       THEN /\ Goto(t, "cd_connect")
            /\ ctx' = [ctx EXCEPT ![t] = "create_fresh"]
       ELSE /\ Goto(t, "ct_1")
            /\ ctx' = [ctx EXCEPT ![t] = "validate"]
    /\ UNCHANGED << fileVars, txVars, ctlFrame, data, failure, last_write >>

\* _create_database: conn = self._connect() creates the file
_create_database_connect(t) ==
    /\ pc[t] = "cd_connect"
    /\ IF fkind = "absent"
       THEN /\ fkind' = "db"
            /\ fmode' = "umask"
            /\ fcreated' = TRUE
            /\ disk' = EmptyDb
            /\ last_write' = NoWrite
            /\ UNCHANGED fdata
       ELSE UNCHANGED << fileVars, disk, last_write >>
    /\ Goto(t, "ct_1")
    /\ UNCHANGED << work, lock, in_transaction, ctx, ctlFrame, data, failure >>

CtLabels == << "ct_1", "ct_2", "ct_3", "ct_4" >>

\* DROP TABLE IF EXISTS <name>; CREATE TABLE <name>
RecreateTable(db, name) ==
    [tables |-> db.tables \cup {name},
     allowed_col |-> IF name = "account" THEN FALSE ELSE db.allowed_col,
     update_done |-> IF name = "update_done" THEN <<>> ELSE db.update_done,
     account |-> IF name = "account" THEN <<>> ELSE db.account,
     bucket |-> IF name = "bucket" THEN <<>> ELSE db.bucket]

\* table creation that replaces the tables it finds
_create_tables_replacing(t) ==
    \E i \in 1..Len(CtLabels) :
        /\ pc[t] = CtLabels[i]
        /\ IF fkind # "db"
           THEN /\ IF ctx[t] = "validate"
                   THEN Goto(t, "vd_read") /\ UNCHANGED failure
                   ELSE Raise(t, "DatabaseError")
                /\ UNCHANGED txVars
           ELSE /\ ExecuteDdl(t, RecreateTable(View(t), TableNames[i]))
                /\ Goto(t, IF i < Len(CtLabels) THEN CtLabels[i + 1] ELSE "eu_begin")
                /\ UNCHANGED failure
        /\ UNCHANGED << fileVars, ctx, ctlFrame, data, last_write >>

\* _create_tables: the four CREATE TABLE IF NOT EXISTS statements, one a step
_create_tables(t) ==
    \E i \in 1..Len(CtLabels) :
        /\ pc[t] = CtLabels[i]
        /\ IF fkind # "db"
           THEN \* sqlite3.DatabaseError: file is not a database
                /\ IF ctx[t] = "validate"
                   THEN Goto(t, "vd_read") /\ UNCHANGED failure
                   ELSE Raise(t, "DatabaseError")
                /\ UNCHANGED txVars
           ELSE /\ IF TableNames[i] \in View(t).tables
                   THEN CanShared(t) /\ UNCHANGED txVars
                   ELSE ExecuteDdl(t, CreateTableIfNotExists(View(t), TableNames[i]))
                /\ Goto(t, IF i < Len(CtLabels) THEN CtLabels[i + 1] ELSE "eu_begin")
                /\ UNCHANGED failure
        /\ UNCHANGED << fileVars, ctx, ctlFrame, data, last_write >>

\* a connection kept in an attribute of the instance, not of the thread
_get_connection_shared(t) ==
    /\ thread_local' =
         [thread_local EXCEPT ![t] =
            IF \E u \in Threads : thread_local[u] # 0
            THEN thread_local[CHOOSE u \in Threads : thread_local[u] # 0]
            ELSE t]
    /\ connects' =
         [connects EXCEPT ![t] =
            IF \E u \in Threads : thread_local[u] # 0 THEN @ ELSE @ + 1]

\* _get_connection: the connection of the calling thread, created by
\* self._connect() on first use; a connection is named by the thread that
\* created it
_get_connection(t) ==
    /\ thread_local' = [thread_local EXCEPT ![t] = IF @ = 0 THEN t ELSE @]
    /\ connects' = [connects EXCEPT ![t] = IF thread_local[t] = 0 THEN @ + 1 ELSE @]

\* _ensure_update without conn.execute('BEGIN')
_ensure_update_begin_omitted(t) ==
    /\ pc[t] = "eu_begin"
    /\ _get_connection(t)
    /\ Goto(t, "eu_select")
    /\ UNCHANGED << fileVars, txVars, ctx, arg, pre, update_count, ready, ret,
                    data, failure, last_write >>

\* _ensure_update: with self._get_connection() as conn: conn.execute('BEGIN')
_ensure_update_begin(t) ==
    /\ pc[t] = "eu_begin"
    /\ _get_connection(t)
    /\ in_transaction' = [in_transaction EXCEPT ![t] = TRUE]
    /\ Goto(t, "eu_select")
    /\ UNCHANGED << fileVars, disk, work, lock, ctx, arg, pre, update_count, ready, ret,
                    data, failure, last_write >>

\* _ensure_update: SELECT COUNT(*) ... ; assert update_count in [0, 1]
_ensure_update_select(t) ==
    /\ pc[t] = "eu_select"
    /\ CanShared(t)
    /\ LET count == CountUpdateDone(View(t), 1)
       IN /\ update_count' = [update_count EXCEPT ![t] = count]
          /\ IF count \notin {0, 1}
             THEN Rollback(t) /\ Raise(t, "AssertionError")
             ELSE /\ lock' = [lock EXCEPT ![t] =
                              IF in_transaction[t] /\ @ = "NONE" THEN "SHARED" ELSE @]
                  /\ Goto(t, IF count = 0 THEN "eu_alter" ELSE "eu_commit")
                  /\ UNCHANGED << disk, work, in_transaction, failure >>
    /\ UNCHANGED << fileVars, ctx, arg, pre, thread_local, connects, ready, ret, data,
                    last_write >>

\* a statement of _ensure_update raises sqlite3.OperationalError: the with
\* block rolls back; _validate_database swallows the error as DatabaseError
\* and goes on to read the file as JSON, every other caller lets it out
EnsureUpdateFails(t) ==
    /\ Rollback(t)
    /\ IF ctx[t] = "validate"
       THEN Goto(t, "vd_read") /\ UNCHANGED failure
       ELSE Raise(t, "OperationalError")

\* a reader inside a transaction asks for the write lock while another
\* connection holds it: SQLITE_BUSY (database is locked)
Busy(t) == in_transaction[t] /\ ~Writing(t) /\ ~CanReserved(t)

\* _ensure_update: conn.execute('ALTER TABLE account ADD COLUMN allowed TEXT;')
_ensure_update_alter(t) ==
    /\ pc[t] = "eu_alter"
    /\ IF View(t).allowed_col \/ Busy(t)
       THEN \* sqlite3.OperationalError: duplicate column name, or database is locked
            EnsureUpdateFails(t)
       ELSE /\ ExecuteDdl(t, [View(t) EXCEPT !.allowed_col = TRUE])
            /\ Goto(t, "eu_insert")
            /\ UNCHANGED failure
    /\ UNCHANGED << fileVars, ctx, ctlFrame, data, last_write >>

\* _ensure_update: INSERT INTO update_done (update_number) VALUES (?)
_ensure_update_insert(t) ==
    /\ pc[t] = "eu_insert"
    /\ ExecuteDml(t, [View(t) EXCEPT !.update_done = Append(@, 1)])
    /\ Goto(t, "eu_commit")
    /\ UNCHANGED << fileVars, ctx, ctlFrame, data, failure, last_write >>

\* _ensure_update: leaving the with block commits; control returns to the
\* caller of _create_tables
_ensure_update_commit(t) ==
    /\ pc[t] = "eu_commit"
    /\ \/ /\ Commit(t)
          /\ CASE ctx[t] \in {"create_fresh", "create_legacy"} ->
                    Goto(t, "cd_chmod") /\ UNCHANGED << ctx, ready >>
               [] ctx[t] = "validate" ->
                    /\ Goto(t, "ct_1")
                    /\ ctx' = [ctx EXCEPT ![t] = "init"]
                    /\ UNCHANGED ready
               [] ctx[t] = "legacy" ->
                    Goto(t, "vd_insert") /\ UNCHANGED << ctx, ready >>
               [] ctx[t] = "init" ->
                    /\ Goto(t, "idle")
                    /\ ctx' = [ctx EXCEPT ![t] = ""]
                    /\ ready' = TRUE
          /\ UNCHANGED failure
       \/ \* the readers do not go away before the busy timeout: database is locked
          /\ Writing(t) /\ ~CanExclusive(t)
          /\ EnsureUpdateFails(t)
          /\ UNCHANGED << ctx, ready >>
    /\ UNCHANGED << fileVars, arg, pre, thread_local, connects, update_count, ret, data,
                    last_write >>

\* _create_database: conn.close(); os.chmod(self.filename, S_IRUSR | S_IWUSR)
_create_database_chmod(t) ==
    /\ pc[t] = "cd_chmod"
    /\ fmode' = "0600"
    /\ Goto(t, "ct_1")
    /\ ctx' = [ctx EXCEPT ![t] = IF @ = "create_fresh" THEN "init" ELSE "legacy"]
    /\ UNCHANGED << fkind, fdata, fcreated, txVars, ctlFrame, data, failure, last_write >>

\* _validate_database: json.loads(f.read().decode('utf-8')) and the key test
_validate_database_read(t) ==
    /\ pc[t] = "vd_read"
    /\ IF fkind = "db" \/ ~fdata.utf8 \/ ~fdata.json
       THEN \* ValueError, swallowed: raise CorruptAccountInfo
            Raise(t, "CorruptAccountInfo") /\ UNCHANGED data
       ELSE CASE AllKeysIn(fdata) = "TypeError" ->
                   Raise(t, "TypeError") /\ UNCHANGED data
              [] AllKeysIn(fdata) = "False" ->
                   Raise(t, "CorruptAccountInfo") /\ UNCHANGED data
              [] AllKeysIn(fdata) = "True" ->
                   /\ data' = fdata
                   /\ Goto(t, "vd_unlink")
                   /\ UNCHANGED failure
    /\ UNCHANGED << fileVars, txVars, ctx, ctlFrame, last_write >>

\* _validate_database: os.unlink(self.filename), then self._create_database()
_validate_database_unlink(t) ==
    /\ pc[t] = "vd_unlink"
    /\ fkind' = "absent"
    /\ fdata' = NoData
    /\ Goto(t, "cd_connect")
    /\ ctx' = [ctx EXCEPT ![t] = "create_legacy"]
    /\ UNCHANGED << fmode, fcreated, txVars, ctlFrame, data, failure, last_write >>

\* _validate_database: conn.execute(insert_statement, tuple(data[k] for k in keys))
_validate_database_insert(t) ==
    /\ pc[t] = "vd_insert"
    /\ IF data.shape # "object"
       THEN \* data[k] on a list or a str
            Rollback(t) /\ Raise(t, "TypeError")
       ELSE LET res == InsertAccount(View(t), keys,
                                     [i \in 1..Len(keys) |-> data.members[keys[i]]])
            IN IF res.err # ""
               THEN Rollback(t) /\ Raise(t, res.err)
               ELSE /\ ExecuteDml(t, res.db)
                    /\ Goto(t, "vd_commit")
                    /\ UNCHANGED failure
    /\ UNCHANGED << fileVars, ctx, ctlFrame, data, last_write >>

\* _validate_database: leaving the with block commits the imported row
_validate_database_commit(t) ==
    /\ pc[t] = "vd_commit"
    /\ Commit(t)
    /\ last_write' = [op |-> "legacy_import", arg |-> [op |-> "legacy_import", data |-> data],
                      cached |-> {}]
    /\ data' = NoData
    /\ Goto(t, "ct_1")
    /\ ctx' = [ctx EXCEPT ![t] = "init"]
    /\ UNCHANGED << fileVars, ctlFrame, failure >>

\* the process dies (or exits) at any point: open transactions are rolled
\* back by the journal, the file stays, and the program is started again
Crash ==
    /\ pc' = [t \in Threads |-> IF t = MainThread THEN "start" ELSE "idle"]
    /\ ctx' = [t \in Threads |-> ""]
    /\ arg' = [t \in Threads |-> NoArg]
    /\ pre' = [t \in Threads |-> EmptyDb]
    /\ in_transaction' = [t \in Threads |-> FALSE]
    /\ lock' = [t \in Threads |-> "NONE"]
    /\ work' = [t \in Threads |-> EmptyDb]
    /\ thread_local' = [t \in Threads |-> 0]
    /\ connects' = [t \in Threads |-> 0]
    /\ update_count' = [t \in Threads |-> 0]
    /\ data' = NoData
    /\ ready' = FALSE
    /\ failure' = ""
    /\ ret' = NoRet
    /\ UNCHANGED << fileVars, disk, last_write >>

\* ------------------------------------------------------------------------
\* Public operations (any thread, once __init__ has returned)
\* ------------------------------------------------------------------------
CanCall(t) == ready /\ pc[t] = "idle"

Returns(v) == [raised |-> "", value |-> v]
Raises(e) == [raised |-> e, value |-> PyNone]

opFrame == << fileVars, ctx, update_count, data, ready, failure >>

\* the tuple in the order of the parameters of set_auth_data, not of the
\* columns of the INSERT
set_auth_data_values_swapped(r) ==
    << r.cred.account_id, r.cred.account_auth_token, r.cred.api_url,
       r.cred.download_url, r.cred.application_key, r.cred.minimum_part_size, r.cred.realm,
       [type |-> "TEXT", val |-> json_dumps(r.allowed)] >>

\* the tuple bound to the INSERT of set_auth_data
set_auth_data_values(r) ==
    << r.cred.account_id, r.cred.application_key, r.cred.account_auth_token,
       r.cred.api_url, r.cred.download_url, r.cred.minimum_part_size, r.cred.realm,
       [type |-> "TEXT", val |-> json_dumps(r.allowed)] >>

\* set_auth_data: assert allowed_is_valid; DELETE FROM account (opens the
\* transaction)
set_auth_data(t, r) ==
    /\ CanCall(t)
    /\ IF ~allowed_is_valid(r.allowed)
       THEN /\ ret' = [thread |-> t, op |-> "set_auth_data", key |-> ""] @@ Raises("AssertionError")
            /\ UNCHANGED << txVars, pc, arg, pre, thread_local, connects >>
       ELSE /\ _get_connection(t)
            /\ ExecuteDml(t, DeleteAccount(View(t)))
            /\ arg' = [arg EXCEPT ![t] = [op |-> "set_auth_data", r |-> r]]
            /\ pre' = [pre EXCEPT ![t] = disk]
            /\ Goto(t, "sa_delete_bucket")
            /\ UNCHANGED ret
    /\ UNCHANGED << opFrame, last_write >>

\* set_auth_data without its DELETE FROM bucket
set_auth_data_keep_bucket(t) ==
    /\ pc[t] = "sa_delete_bucket"
    /\ ExecuteDml(t, View(t))
    /\ Goto(t, "sa_delete_bucket_upload_url")
    /\ UNCHANGED << opFrame, arg, pre, thread_local, connects, ret, last_write >>

\* set_auth_data: DELETE FROM bucket
set_auth_data_delete_bucket(t) ==
    /\ pc[t] = "sa_delete_bucket"
    /\ ExecuteDml(t, DeleteBucket(View(t)))
    /\ Goto(t, "sa_delete_bucket_upload_url")
    /\ UNCHANGED << opFrame, arg, pre, thread_local, connects, ret, last_write >>

\* set_auth_data: DELETE FROM bucket_upload_url (a table that never has rows)
set_auth_data_delete_bucket_upload_url(t) ==
    /\ pc[t] = "sa_delete_bucket_upload_url"
    /\ ExecuteDml(t, View(t))
    /\ Goto(t, "sa_insert")
    /\ UNCHANGED << opFrame, arg, pre, thread_local, connects, ret, last_write >>

\* set_auth_data: INSERT INTO account (... , allowed) values (?, ..., ?)
set_auth_data_insert(t) ==
    /\ pc[t] = "sa_insert"
    /\ LET res == InsertAccount(View(t), Append(keys, "allowed"),
                                set_auth_data_values(arg[t].r))
       IN IF res.err # ""
          THEN /\ Rollback(t)
               /\ Goto(t, "idle")
               /\ ret' = [thread |-> t, op |-> "set_auth_data", key |-> ""] @@ Raises(res.err)
               /\ arg' = [arg EXCEPT ![t] = NoArg]
               /\ pre' = [pre EXCEPT ![t] = EmptyDb]
          ELSE /\ ExecuteDml(t, res.db)
               /\ Goto(t, "sa_commit")
               /\ UNCHANGED << arg, pre, ret >>
    /\ UNCHANGED << opFrame, thread_local, connects, last_write >>

\* names the bucket table of db has a row for
CachedNames(db) == {db.bucket[i][1] : i \in 1..Len(db.bucket)}

\* set_auth_data: leaving the with block commits
set_auth_data_commit(t) ==
    /\ pc[t] = "sa_commit"
    /\ Commit(t)
    /\ last_write' = [op |-> "set_auth_data", arg |-> arg[t],
                      cached |-> CachedNames(pre[t])]
    /\ arg' = [arg EXCEPT ![t] = NoArg]
    /\ pre' = [pre EXCEPT ![t] = EmptyDb]
    /\ Goto(t, "idle")
    /\ UNCHANGED << opFrame, thread_local, connects, ret >>

\* a whole `with self._get_connection() as conn:` block of INSERT/DELETE
\* statements leaving content d: BEGIN EXCLUSIVE before the first statement,
\* commit at the end.  The lock makes the block one step for every other
\* connection, and a crash inside it rolls it back.
Transaction(t, written, d) ==
    /\ CanCall(t)
    /\ _get_connection(t)
    /\ CanExclusive(t)
    /\ disk' = d
    /\ last_write' = written
    /\ UNCHANGED << opFrame, work, lock, in_transaction, pc, arg, pre, ret >>

\* clear: DELETE FROM account; DELETE FROM bucket; DELETE FROM bucket_upload_url
clear(t) ==
    Transaction(t, [op |-> "clear", arg |-> NoArg, cached |-> {}],
                DeleteBucket(DeleteAccount(View(t))))

\* a loop that ends after its first INSERT
InsertBuckets_once(db, name_id_iterable) ==
    IF name_id_iterable = <<>> THEN db
    ELSE [db EXCEPT !.bucket = Append(@, Head(name_id_iterable))]

RECURSIVE InsertBuckets(_, _)
\* for (bucket_name, bucket_id) in name_id_iterable: INSERT INTO bucket
InsertBuckets(db, name_id_iterable) ==
    IF name_id_iterable = <<>> THEN db
    ELSE InsertBuckets([db EXCEPT !.bucket = Append(@, Head(name_id_iterable))],
                       Tail(name_id_iterable))

\* refresh_entire_bucket_name_cache: DELETE FROM bucket, then the INSERTs
refresh_entire_bucket_name_cache(t, name_id_iterable) ==
    Transaction(t, [op |-> "refresh", arg |-> [op |-> "refresh", entries |-> name_id_iterable],
                    cached |-> {}],
                InsertBuckets(DeleteBucket(View(t)), name_id_iterable))

\* save_bucket: DELETE FROM bucket WHERE bucket_id = ?; INSERT INTO bucket
save_bucket(t, id_, name) ==
    Transaction(t, [op |-> "save_bucket", arg |-> NoArg, cached |-> {}],
                InsertBuckets(DeleteBucketById(View(t), id_), << <<name, id_>> >>))

\* remove_bucket_name: DELETE FROM bucket WHERE bucket_name = ?
remove_bucket_name(t, bucket_name) ==
    Transaction(t, [op |-> "remove_bucket_name", arg |-> NoArg, cached |-> {}],
                DeleteBucketByName(View(t), bucket_name))

\* a getter that returns None when the table has no row
_get_account_info_or_raise_none(db, column_name, locked) ==
    IF \/ locked
       \/ "account" \notin db.tables
       \/ column_name = "allowed" /\ ~db.allowed_col
    THEN Raises("MissingAccountData")
    ELSE IF db.account = <<>> THEN Returns(IF column_name = "allowed" THEN NullAllowed ELSE SqlNull)
    ELSE Returns(db.account[1][column_name])

\* _get_account_info_or_raise: SELECT <column> FROM account; fetchone()[0];
\* any exception becomes MissingAccountData.  locked: another connection
\* holds the exclusive lock until the busy timeout expires
_get_account_info_or_raise(db, column_name, locked) ==
    IF \/ locked
       \/ "account" \notin db.tables
       \/ column_name = "allowed" /\ ~db.allowed_col
       \/ db.account = <<>>
    THEN Raises("MissingAccountData")
    ELSE Returns(db.account[1][column_name])

\* get_allowed: None for a NULL column, else json.loads of its text
get_allowed(db, locked) ==
    LET allowed_json == _get_account_info_or_raise(db, "allowed", locked)
    IN IF allowed_json.raised # "" THEN allowed_json
       ELSE IF allowed_json.value.type = "NULL" THEN Returns(PyNone)
       ELSE Returns(json_loads(allowed_json.value.val))

\* get_bucket_id_or_none_from_bucket_name: first matching row, None when
\* there is none or on sqlite3.Error
get_bucket_id_or_none_from_bucket_name(db, bucket_name, locked) ==
    LET rows == SelectSeq(db.bucket, LAMBDA row : row[1] = bucket_name)
    IN IF locked \/ "bucket" \notin db.tables \/ rows = <<>>
       THEN Returns(PyNone)
       ELSE Returns(PyStr(rows[1][2]))

\* dict.get(key): the value of the key, None when the dict has no such key
DictGet(d, key) == IF key \in DOMAIN d THEN d[key] ELSE PyNone

\* truth value of a Python value in `if x:` (None and '' are false)
Truthy(v) == v.py = "str" /\ v.s # ""

\* get_allowed_bucket_id: None without a descriptor, else allowed.get('bucketId')
get_allowed_bucket_id(db, locked) ==
    LET allowed == get_allowed(db, locked)
    IN IF allowed.raised # "" THEN allowed
       ELSE IF allowed.value = PyNone THEN Returns(PyNone)
       ELSE Returns(DictGet(allowed.value, "bucketId"))

\* get_allowed_name_prefix: '' without a descriptor, else allowed.get('namePrefix')
get_allowed_name_prefix(db, locked) ==
    LET allowed == get_allowed(db, locked)
    IN IF allowed.raised # "" THEN allowed
       ELSE IF allowed.value = PyNone THEN Returns(PyStr(""))
       ELSE Returns(DictGet(allowed.value, "namePrefix"))

\* get_bucket_name_from_allowed_or_none: get_allowed_bucket_id() outside the
\* try block; then the first row with that id, None when there is none or on
\* sqlite3.Error
get_bucket_name_from_allowed_or_none(db, locked) ==
    LET allowed_bucket_id == get_allowed_bucket_id(db, locked)
    IN IF allowed_bucket_id.raised # "" THEN allowed_bucket_id
       ELSE IF ~Truthy(allowed_bucket_id.value) THEN Returns(PyNone)
       ELSE LET rows == SelectSeq(db.bucket,
                                  LAMBDA row : row[2] = allowed_bucket_id.value.s)
            IN IF locked \/ "bucket" \notin db.tables \/ rows = <<>>
               THEN Returns(PyNone)
               ELSE Returns(PyStr(rows[1][1]))

\* raise B2Error('... authorization is limited to: ' + name)
RaisesB2Error(name) == [raised |-> "B2Error", value |-> PyStr(name)]

\* a check that compares with == where the code has !=
bucket_name_matches_restriction_inverted(db, request_bucket_name, locked) ==
    LET allowed_bucket_name == get_bucket_name_from_allowed_or_none(db, locked)
    IN IF allowed_bucket_name.raised # "" THEN allowed_bucket_name
       ELSE IF /\ allowed_bucket_name.value # PyNone
               /\ allowed_bucket_name.value.s = request_bucket_name
       THEN RaisesB2Error(allowed_bucket_name.value.s)
       ELSE Returns(PyNone)

\* bucket_name_matches_restriction: B2Error when the allowed bucket has a
\* cached name and it is not the requested one
bucket_name_matches_restriction(db, request_bucket_name, locked) ==
    LET allowed_bucket_name == get_bucket_name_from_allowed_or_none(db, locked)
    IN IF allowed_bucket_name.raised # "" THEN allowed_bucket_name
       ELSE IF /\ allowed_bucket_name.value # PyNone
               /\ allowed_bucket_name.value.s # request_bucket_name
       THEN RaisesB2Error(allowed_bucket_name.value.s)
       ELSE Returns(PyNone)

\* file prefixes the callers ask about
FilePrefixes == {"2024/jan.jpg", "2023/jan.jpg"}

\* str.startswith on the prefixes in use
startswith(file_prefix, prefix) ==
    \/ prefix = ""
    \/ prefix = file_prefix
    \/ prefix = "2024/" /\ file_prefix = "2024/jan.jpg"

\* file_prefix_matches_restriction: B2Error when a non-empty prefix is
\* recorded and file_prefix does not start with it
file_prefix_matches_restriction(db, file_prefix, locked) ==
    LET file_prefix_restriction == get_allowed_name_prefix(db, locked)
    IN IF file_prefix_restriction.raised # "" THEN file_prefix_restriction
       ELSE IF /\ Truthy(file_prefix_restriction.value)
               /\ ~startswith(file_prefix, file_prefix_restriction.value.s)
       THEN RaisesB2Error(file_prefix_restriction.value.s)
       ELSE Returns(PyNone)

\* a read operation of thread t with outcome res
Read(t, op, key, res) ==
    /\ CanCall(t)
    /\ _get_connection(t)
    /\ ret' = [thread |-> t, op |-> op, key |-> key] @@ res
    /\ UNCHANGED << opFrame, txVars, pc, arg, pre, last_write >>

\* get_account_id, get_application_key, ... get_minimum_part_size
Getter(t, column_name) ==
    Read(t, "get", column_name, _get_account_info_or_raise(View(t), column_name, ~CanShared(t)))

GetAllowed(t) ==
    Read(t, "get_allowed", "allowed", get_allowed(View(t), ~CanShared(t)))

GetBucketId(t, bucket_name) ==
    Read(t, "get_bucket_id", bucket_name,
         get_bucket_id_or_none_from_bucket_name(View(t), bucket_name, ~CanShared(t)))

GetAllowedBucketId(t) ==
    Read(t, "get_allowed_bucket_id", "", get_allowed_bucket_id(View(t), ~CanShared(t)))

GetAllowedNamePrefix(t) ==
    Read(t, "get_allowed_name_prefix", "", get_allowed_name_prefix(View(t), ~CanShared(t)))

GetBucketNameFromAllowed(t) ==
    Read(t, "get_bucket_name_from_allowed", "",
         get_bucket_name_from_allowed_or_none(View(t), ~CanShared(t)))

BucketNameMatchesRestriction(t, request_bucket_name) ==
    Read(t, "bucket_name_matches_restriction", request_bucket_name,
         bucket_name_matches_restriction(View(t), request_bucket_name, ~CanShared(t)))

FilePrefixMatchesRestriction(t, file_prefix) ==
    Read(t, "file_prefix_matches_restriction", file_prefix,
         file_prefix_matches_restriction(View(t), file_prefix, ~CanShared(t)))

Operate(t) ==
    \/ \E r \in AuthData : set_auth_data(t, r)
    \/ set_auth_data_delete_bucket(t)
    \/ set_auth_data_delete_bucket_upload_url(t)
    \/ set_auth_data_insert(t)
    \/ set_auth_data_commit(t)
    \/ clear(t)
    \/ \E e \in NameIdIterables : refresh_entire_bucket_name_cache(t, e)
    \/ \E id_ \in BucketIds, name \in BucketNames : save_bucket(t, id_, name)
    \/ \E n \in BucketNames : remove_bucket_name(t, n)

\* the read operations
Observe(t) ==
    \/ \E c \in KeySet : Getter(t, c)
    \/ GetAllowed(t)
    \/ \E n \in BucketNames : GetBucketId(t, n)

\* the derived accessors, the lookup by allowed id and the restriction checks
Restrict(t) ==
    \/ GetAllowedBucketId(t)
    \/ GetAllowedNamePrefix(t)
    \/ GetBucketNameFromAllowed(t)
    \/ \E n \in BucketNames : BucketNameMatchesRestriction(t, n)
    \/ \E f \in FilePrefixes : FilePrefixMatchesRestriction(t, f)

\* the caller takes the outcome of its call
Return ==
    /\ ret # NoRet
    /\ ret' = NoRet
    /\ UNCHANGED << fileVars, txVars, pc, ctx, arg, pre, thread_local, connects,
                    update_count, data,
                    ready, failure, last_write >>

Construct(t) ==
    \/ _validate_database(t)
    \/ _create_database_connect(t)
    \/ _create_tables(t)
    \/ _ensure_update_begin(t)
    \/ _ensure_update_select(t)
    \/ _ensure_update_alter(t)
    \/ _ensure_update_insert(t)
    \/ _ensure_update_commit(t)
    \/ _create_database_chmod(t)
    \/ _validate_database_read(t)
    \/ _validate_database_unlink(t)
    \/ _validate_database_insert(t)
    \/ _validate_database_commit(t)

Next ==
    \/ ret = NoRet /\ \E t \in Threads : Construct(t)
    \/ ret = NoRet /\ \E t \in Threads : Operate(t)
    \/ ret = NoRet /\ \E t \in Threads : Observe(t)
    \/ Return
    \/ Crash

Spec == Init /\ [][Next]_vars

\* ------------------------------------------------------------------------
\* The same store, read through the derived accessors, the lookup by
\* allowed id and the restriction checks
\* ------------------------------------------------------------------------
RestrictNext ==
    \/ ret = NoRet /\ \E t \in Threads : Construct(t)
    \/ ret = NoRet /\ \E t \in Threads : Operate(t)
    \/ ret = NoRet /\ \E t \in Threads : Restrict(t)
    \/ Return
    \/ Crash

RestrictSpec == Init /\ [][RestrictNext]_vars

\* ------------------------------------------------------------------------
\* Concurrent startup: every thread (or process) constructs a
\* SqliteAccountInfo on the same path, which is absent or holds a database
\* in which update 1 is not recorded
\* ------------------------------------------------------------------------
StartupInit ==
    /\ \/ fkind = "absent" /\ disk = EmptyDb
       \/ fkind = "db" /\ disk \in OldDbs
    /\ fdata = NoData
    /\ fmode = "umask"
    /\ fcreated = FALSE
    /\ pc = [t \in Threads |-> "start"]
    /\ ctx = [t \in Threads |-> ""]
    /\ arg = [t \in Threads |-> NoArg]
    /\ pre = [t \in Threads |-> EmptyDb]
    /\ in_transaction = [t \in Threads |-> FALSE]
    /\ lock = [t \in Threads |-> "NONE"]
    /\ work = [t \in Threads |-> EmptyDb]
    /\ thread_local = [t \in Threads |-> 0]
    /\ connects = [t \in Threads |-> 0]
    /\ update_count = [t \in Threads |-> 0]
    /\ data = NoData
    /\ ready = FALSE
    /\ failure = ""
    /\ ret = NoRet
    /\ last_write = NoWrite

\* the steps of __init__ on a path that holds no legacy file
Startup(t) ==
    \/ _validate_database(t)
    \/ _create_database_connect(t)
    \/ _create_tables(t)
    \/ _ensure_update_begin(t)
    \/ _ensure_update_select(t)
    \/ _ensure_update_alter(t)
    \/ _ensure_update_insert(t)
    \/ _ensure_update_commit(t)
    \/ _create_database_chmod(t)
    \/ _validate_database_read(t)

StartupNext == \E t \in Threads : Startup(t)

StartupSpec == StartupInit /\ [][StartupNext]_vars

\* ------------------------------------------------------------------------
\* Properties
\* ------------------------------------------------------------------------
NoWriter == \A u \in Threads : lock[u] = "NONE"

\* the account row set_auth_data(r) is to leave
ExpectedRow(r) ==
    [k \in KeySet |-> r.cred[k]]
    @@ [allowed |-> [type |-> "TEXT", val |-> json_dumps(r.allowed)]]

\* C1: after set_auth_data(r) has committed, and with no write since, each
\* of the seven getters returns the field of r it names and get_allowed
\* returns a descriptor equal to r's, whatever the store held before.
C1_RoundTrip ==
    (last_write.op = "set_auth_data" /\ NoWriter) =>
        /\ \A k \in KeySet :
             _get_account_info_or_raise(disk, k, FALSE)
                = Returns(last_write.arg.r.cred[k])
        /\ get_allowed(disk, FALSE) = Returns(last_write.arg.r.allowed)
        /\ ret.op = "get" =>
             ret.raised = "" /\ ret.value = last_write.arg.r.cred[ret.key]
        /\ ret.op = "get_allowed" =>
             ret.raised = "" /\ ret.value = last_write.arg.r.allowed

\* a descriptor with a bucket and a prefix was read back after a
\* set_auth_data on a store that had cached buckets
C1_Witness ==
    /\ last_write.op = "set_auth_data"
    /\ last_write.cached # {}
    /\ NoWriter
    /\ ret.op = "get_allowed"
    /\ ret.value = Allowed2

\* C2: in every committed state the account table holds 0 or 1 rows.
C2_AtMostOneAccountRow == Len(disk.account) <= 1

\* a thread other than the constructing one is about to commit a
\* set_auth_data on a store that already had an account row
C2_Witness ==
    \E t \in Threads \ {MainThread} :
        /\ pc[t] = "sa_commit"
        /\ Len(pre[t].account) = 1
        /\ Len(work[t].account) = 1

\* C3: right after set_auth_data commits the bucket table has no rows, and
\* the lookup of every name cached before the call returns None.
C3_SetEmptiesCache ==
    last_write.op = "set_auth_data" =>
        /\ disk.bucket = <<>>
        /\ \A n \in last_write.cached :
             get_bucket_id_or_none_from_bucket_name(disk, n, FALSE) = Returns(PyNone)
        /\ ret.op = "get_bucket_id" => ret.value = PyNone

\* a name that was cached before set_auth_data was looked up after it
C3_Witness ==
    /\ last_write.op = "set_auth_data"
    /\ ret.op = "get_bucket_id"
    /\ ret.key \in last_write.cached

SaSteps == {"sa_delete_bucket", "sa_delete_bucket_upload_url", "sa_insert", "sa_commit"}

\* C4: while a set_auth_data call is in progress the committed content (what
\* other connections read and what a crash leaves) does not change, except
\* in the one step that commits the new account row together with the empty
\* bucket table; a read another thread makes meanwhile returns no row.
C4_SetAuthDataAtomic ==
    [][\A t \in Threads :
          (pc[t] \in SaSteps \/ pc'[t] \in SaSteps) =>
             /\ \/ disk' = disk
                \/ /\ pc[t] = "sa_commit"
                   /\ pc'[t] = "idle"
                   /\ disk'.account = << ExpectedRow(arg[t].r) >>
                   /\ disk'.bucket = <<>>
             /\ (ret' # ret /\ ret'.thread \notin {0, t} /\ ret'.op # "set_auth_data") =>
                   \/ ret'.raised = "MissingAccountData"
                   \/ ret'.raised = "" /\ ret'.value = PyNone]_vars

\* a call is ready to commit over an account row and cached buckets, and a
\* read of another thread has been refused meanwhile
C4_Witness ==
    \E t \in Threads :
        /\ pc[t] = "sa_commit"
        /\ disk.account # <<>>
        /\ disk.bucket # <<>>
        /\ work[t] # disk
        /\ ret.thread \notin {0, t}

\* C5: in every committed state the account table has the column `allowed`
\* exactly if update 1 is recorded in update_done, update 1 is recorded at
\* most once, and the assertion of _ensure_update never fails.
C5_SchemaMatchesUpdateLog ==
    fkind = "db" =>
        /\ disk.allowed_col <=> CountUpdateDone(disk, 1) >= 1
        /\ CountUpdateDone(disk, 1) <= 1
        /\ failure # "AssertionError"

\* a restart after clear() found update 1 recorded
C5_Witness ==
    /\ pc[MainThread] = "eu_commit"
    /\ update_count[MainThread] = 1
    /\ disk.allowed_col
    /\ last_write.op = "clear"

\* a JSON object that has all seven required keys
ConvertibleObject(doc) ==
    doc.shape = "object" /\ KeySet \subseteq DOMAIN doc.members

\* the document the constructor has read, else the one at the path
Doc == IF data.shape # "none" THEN data ELSE fdata

\* C6: construction on a file that holds a JSON object with all seven
\* required keys succeeds; afterwards the path holds a database, each getter
\* returns the value the JSON gave for its key, get_allowed returns None and
\* the bucket table is empty.
C6_LegacyImport ==
    /\ ConvertibleObject(Doc) => failure = ""
    /\ (last_write.op = "legacy_import" /\ ready) =>
          /\ fkind = "db"
          /\ \A k \in KeySet :
               _get_account_info_or_raise(disk, k, FALSE)
                  = Returns(last_write.arg.data.members[k])
          /\ get_allowed(disk, FALSE) = Returns(PyNone)
          /\ disk.bucket = <<>>

\* C7: construction on a file that is neither a database nor a JSON object
\* with all seven required keys never succeeds, and the exception that
\* leaves it is CorruptAccountInfo.
C7_CorruptStore ==
    (Doc.shape # "none" /\ ~ConvertibleObject(Doc)) =>
        /\ ~ready
        /\ pc[MainThread] = "failed" => failure = "CorruptAccountInfo"

\* C8: a file this class created holds no account row, committed or not,
\* while its permissions are not yet owner read/write.
C8_ChmodBeforeCredentials ==
    (fcreated /\ fmode # "0600") =>
        /\ disk.account = <<>>
        /\ \A t \in Threads : work[t].account = <<>>

EntryNames(entries) == {entries[i][1] : i \in 1..Len(entries)}

\* what the lookup of name n is to give for a cache refreshed with entries
LookupAgrees(res, n, entries) ==
    IF n \in EntryNames(entries)
    THEN /\ res.raised = ""
         /\ res.value.py = "str"
         /\ \E i \in 1..Len(entries) : entries[i] = << n, res.value.s >>
    ELSE res.raised = "" /\ res.value = PyNone

\* C9: after refresh_entire_bucket_name_cache(E) the bucket table holds
\* exactly the pairs of E, the lookup of a name of E returns an id paired
\* with it in E, and the lookup of any other name returns None.
C9_RefreshReplacesCache ==
    last_write.op = "refresh" =>
        /\ disk.bucket = last_write.arg.entries
        /\ \A n \in BucketNames :
             LookupAgrees(get_bucket_id_or_none_from_bucket_name(disk, n, FALSE), n,
                          last_write.arg.entries)
        /\ (ret.op = "get_bucket_id" /\ NoWriter) =>
             LookupAgrees(ret, ret.key, last_write.arg.entries)

\* after a refresh with some entries, a name outside them was looked up
C9_Witness ==
    /\ last_write.op = "refresh"
    /\ last_write.arg.entries # <<>>
    /\ NoWriter
    /\ ret.op = "get_bucket_id"
    /\ ret.key \notin EntryNames(last_write.arg.entries)
    /\ ret.value = PyNone

\* at most one row of the bucket table of db per bucket_id
UniqueIds(db) ==
    \A i, j \in 1..Len(db.bucket) : db.bucket[i][2] = db.bucket[j][2] => i = j

\* two pairs of entries have the same id
RepeatsId(entries) ==
    \E i, j \in 1..Len(entries) : i # j /\ entries[i][2] = entries[j][2]

\* C10 as stated: in every reachable state the bucket table holds at most
\* one row per bucket_id, also after a refresh whose pairs repeat an id.
C10_UniqueIdsAlways == UniqueIds(disk)

\* C10 as amended: every step of the write path other than a refresh whose
\* pairs repeat an id leaves at most one row per bucket_id when there was at
\* most one before.
C10_UniqueIdsKept ==
    [][(UniqueIds(disk)
          /\ ~(last_write'.op = "refresh" /\ RepeatsId(last_write'.arg.entries)))
       => UniqueIds(disk')]_vars

\* save_bucket has replaced a row: two rows, two ids
C10_Witness ==
    /\ last_write.op = "save_bucket"
    /\ Len(disk.bucket) = 2
    /\ UniqueIds(disk)

\* C11: in every state where the account table has no row, each of the seven
\* getters and get_allowed raises MissingAccountData and returns no value.
C11_MissingAccountData ==
    disk.account = <<>> =>
        /\ \A k \in KeySet :
             _get_account_info_or_raise(disk, k, FALSE) = Raises("MissingAccountData")
        /\ get_allowed(disk, FALSE) = Raises("MissingAccountData")
        /\ ret.op \in {"get", "get_allowed"} =>
             ret.raised = "MissingAccountData" /\ ret.value = PyNone

\* a getter was called after clear(), with no other call in progress
C11_Witness ==
    /\ last_write.op = "clear"
    /\ disk.account = <<>>
    /\ NoWriter
    /\ ret.op = "get"
    /\ ret.raised = "MissingAccountData"

\* C12: in every reachable state of the store, with no other call in
\* progress, get_bucket_id_or_none_from_bucket_name and
\* get_bucket_name_from_allowed_or_none return the cached value or None and
\* never raise.
C12_LookupsNeverRaise ==
    /\ ready =>
          /\ \A n \in BucketNames :
               get_bucket_id_or_none_from_bucket_name(disk, n, FALSE).raised = ""
          /\ get_bucket_name_from_allowed_or_none(disk, FALSE).raised = ""
    /\ (NoWriter /\ ret.op \in {"get_bucket_id", "get_bucket_name_from_allowed"}) =>
          ret.raised = ""

\* the account row of db carries a descriptor that names bucket id b
AllowedNames(db, b) ==
    /\ Len(db.account) = 1
    /\ db.allowed_col
    /\ db.account[1].allowed.type = "TEXT"
    /\ LET allowed == json_loads(db.account[1].allowed.val)
       IN "bucketId" \in DOMAIN allowed /\ allowed["bucketId"] = PyStr(b)

\* the names the bucket table of db has for bucket id b
NamesOf(db, b) ==
    {db.bucket[i][1] : i \in {j \in 1..Len(db.bucket) : db.bucket[j][2] = b}}

\* what the check of requested name r is to give when the allowed bucket
\* is cached as n
CheckAgrees(res, r, n) ==
    IF r = n THEN res = Returns(PyNone) ELSE res = RaisesB2Error(n)

\* C13: in every state where the stored descriptor names bucket id B and the
\* bucket cache maps B to the name N (its rows for B carry N and no other
\* name), bucket_name_matches_restriction(r) raises B2Error naming N for
\* every r different from N and returns normally for r = N.
C13_RestrictionAgainstCachedName ==
    \A b \in BucketIds :
        (disk.bucket # <<>> /\ AllowedNames(disk, b)) =>
            \A n \in BucketNames :
                NamesOf(disk, b) = {n} =>
                    /\ \A r \in BucketNames :
                         CheckAgrees(bucket_name_matches_restriction(disk, r, FALSE), r, n)
                    /\ (NoWriter /\ ret.op = "bucket_name_matches_restriction") =>
                         CheckAgrees([raised |-> ret.raised, value |-> ret.value],
                                     ret.key, n)

\* authorization limited to B1, cached as photos: the check of videos has
\* failed naming photos
C13_Witness ==
    /\ AllowedNames(disk, "B1")
    /\ NamesOf(disk, "B1") = {"photos"}
    /\ NoWriter
    /\ ret.op = "bucket_name_matches_restriction"
    /\ ret.key = "videos"
    /\ ret.raised = "B2Error"
    /\ ret.value = PyStr("photos")

\* C14: in every state in which the stored descriptor names a bucket id B,
\* bucket_name_matches_restriction(requested) returns normally only if the
\* cache maps B to requested, also when the cache has no entry for B.
C14_RestrictionNeverIgnored ==
    \A b \in BucketIds :
        AllowedNames(disk, b) =>
            /\ \A r \in BucketNames :
                 bucket_name_matches_restriction(disk, r, FALSE) = Returns(PyNone)
                    => r \in NamesOf(disk, b)
            /\ (ret.op = "bucket_name_matches_restriction" /\ ret.raised = "") =>
                 ret.key \in NamesOf(disk, b)

\* the descriptor stored in the account row of db, PyNone for a NULL column
StoredAllowed(db) ==
    IF db.account[1].allowed.type = "NULL" THEN PyNone
    ELSE json_loads(db.account[1].allowed.val)

\* the descriptor d records a value for key
Records(d, key) == d # PyNone /\ key \in DOMAIN d /\ d[key] # PyNone

\* C15: in every state with an account row get_allowed_name_prefix returns
\* a string, '' when no prefix is recorded (NULL column, or namePrefix
\* missing or null) and the stored prefix otherwise; get_allowed_bucket_id
\* returns None when there is no descriptor or no bucket constraint.
C15_DerivedAccessors ==
    (ready /\ Len(disk.account) = 1) =>
        LET allowed == StoredAllowed(disk)
            prefix == IF Records(allowed, "namePrefix") THEN allowed["namePrefix"]
                      ELSE PyStr("")
        IN /\ get_allowed_name_prefix(disk, FALSE) = Returns(prefix)
           /\ ~Records(allowed, "bucketId") =>
                 get_allowed_bucket_id(disk, FALSE) = Returns(PyNone)
           /\ (NoWriter /\ ret.op = "get_allowed_name_prefix") =>
                 ret.raised = "" /\ ret.value = prefix
           /\ (NoWriter /\ ret.op = "get_allowed_bucket_id"
                 /\ ~Records(allowed, "bucketId")) =>
                 ret.raised = "" /\ ret.value = PyNone

\* C16: for any interleaving of calls of several threads, _get_connection
\* creates at most one connection per calling thread and the connection a
\* thread holds is that one, never one created by a different thread.
C16_OneConnectionPerThread ==
    \A t \in Threads :
        /\ thread_local[t] \in {0, t}
        /\ connects[t] = IF thread_local[t] = 0 THEN 0 ELSE 1

\* both threads hold a connection and the constructing thread, whose
\* connection dates from __init__, has made a later call
C16_Witness ==
    /\ ready
    /\ \A t \in Threads : thread_local[t] = t /\ connects[t] = 1
    /\ ret.thread = MainThread

\* C17: when the existing file is neither an openable database nor
\* convertible legacy JSON, the file is removed before CorruptAccountInfo
\* leaves the constructor: after the failed construction the path does not
\* exist.
C17_CorruptFileRemoved ==
    (pc[MainThread] = "failed" /\ failure = "CorruptAccountInfo") => fkind = "absent"

\* the constructor of t is at work on a file that was a database when it
\* started
Restarting(t) ==
    /\ ~ready
    /\ pc[t] \notin {"idle", "failed"}
    /\ ctx[t] \in {"", "validate", "init"}
    /\ fkind = "db"

\* C18: constructing a SqliteAccountInfo on an existing database (startup
\* validation, table creation and update pass) succeeds and leaves the
\* account row, its descriptor and every bucket cache row as they were, so
\* the getters and lookups give after the restart what was committed
\* before it, for any number of restarts.
C18_RestartPreservesData ==
    [][Restarting(MainThread) =>
          /\ disk'.account = disk.account
          /\ disk'.bucket = disk.bucket
          /\ \A k \in KeySet :
               _get_account_info_or_raise(disk', k, FALSE).value
                  = _get_account_info_or_raise(disk, k, FALSE).value
          /\ \A n \in BucketNames :
               get_bucket_id_or_none_from_bucket_name(disk', n, FALSE)
                  = get_bucket_id_or_none_from_bucket_name(disk, n, FALSE)
          /\ fkind' = "db"
          /\ pc'[MainThread] # "failed"]_vars

\* a restart is completing on a store that holds an account row with a
\* descriptor and a bucket saved before
C18_Witness ==
    /\ pc[MainThread] = "eu_commit"
    /\ ctx[MainThread] = "init"
    /\ update_count[MainThread] = 1
    /\ last_write.op = "save_bucket"
    /\ AllowedNames(disk, "B1")
    /\ disk.bucket # <<>>

\* a JSON object with the seven keys, each with a value of its column's type
WellTyped(doc) ==
    /\ ConvertibleObject(doc)
    /\ \A k \in KeySet : doc.members[k].type = ColumnAffinity(k)

\* C20: at every point of the conversion of a legacy file (from the reading
\* of the JSON to the commit of the INSERT), which is where a crash can
\* stop it, the path holds either the still-convertible legacy file or a
\* database with the account row (for a document whose values have the
\* types of their columns).
C20_ImportKeepsCredentials ==
    (data.shape # "none" /\ WellTyped(data)) =>
        \/ fkind = "legacy" /\ fdata = data
        \/ fkind = "db" /\ Len(disk.account) = 1

\* threads whose connection holds an uncommitted update
Updating == {t \in Threads : pc[t] \in {"eu_insert", "eu_commit"} /\ Writing(t)}

\* C19: when two threads or processes run the startup pass concurrently on
\* a store in which update 1 is not recorded, then for every interleaving
\* of their _ensure_update steps the column is added once and the marker is
\* inserted once: never two markers, the column exactly with the marker,
\* never two connections that have both read 0 and hold the update, and
\* both in place once every constructor has finished.
C19_ConcurrentStartupOnce ==
    /\ CountUpdateDone(disk, 1) <= 1
    /\ disk.allowed_col <=> CountUpdateDone(disk, 1) = 1
    /\ Cardinality(Updating) <= 1
    /\ failure # "AssertionError"
    /\ (\A t \in Threads : pc[t] \in {"idle", "failed"}) =>
          CountUpdateDone(disk, 1) = 1 /\ disk.allowed_col

\* both have read a count of 0; one has run the ALTER TABLE and the INSERT
\* and is about to commit, the other is about to run its ALTER TABLE
C19_Witness ==
    \E t, u \in Threads :
        /\ t # u
        /\ pc[t] = "eu_commit" /\ Writing(t) /\ update_count[t] = 0
        /\ pc[u] = "eu_alter" /\ lock[u] = "SHARED" /\ update_count[u] = 0

====
